---- MODULE Spec2Model ----
(***************************************************************************)
(* Model of the result summarizer of boyter/sc (package processor):        *)
(*   worker_summarize.go  ResultSummarizer.Start / formatJson /            *)
(*                        formatDefault                                    *)
(*   snippet.go           extractRelevantV3 / findNearbySpace /            *)
(*                        extractRelevantV1                                *)
(* Byte offsets are Go offsets (0-based); a content is a sequence of byte  *)
(* values, so Go's content[i] is Content[i + 1] here and content[s:e] is   *)
(* SubSeq(Content, s + 1, e).                                              *)
(***************************************************************************)
EXTENDS Integers, Sequences, FiniteSets, TLC

\* ------------------------------------------------------------------ bounds
\* SnippetLength is the target snippet length handed to extractRelevantV3
MaxBatch == 3
ChanCap == 1
MaxLimit == 2
MaxSnippetCount == 2
SnippetLength == 8
MaxFreq == 2

\* ------------------------------------------------------------- primitives
Min(a, b) == IF a < b THEN a ELSE b

Range(s) == {s[i] : i \in DOMAIN s}

\* all orderings of a finite set, as sequences
Orderings(S) ==
  {p \in [1..Cardinality(S) -> S] : \A x \in S : \E i \in DOMAIN p : p[i] = x}

\* Go's s[:n]
Take(s, n) == SubSeq(s, 1, n)

\* the indicator the summarizer passes, "…", as its three UTF-8 bytes
Indicator == <<226, 128, 166>>

\* unicode.IsSpace on a rune made from one byte (Latin-1 range)
IsSpace(b) == b \in {9, 10, 11, 12, 13, 32, 133, 160}

\* a Go map read: the zero value when the key is missing
MapGet(m, k) == IF k \in DOMAIN m THEN m[k] ELSE 0

\* ---------------------------------------------------------- findNearbySpace
\* the "look left" loop: for i := pos; i >= leftDistance; i--
RECURSIVE lookLeft(_, _, _)
lookLeft(Content, i, leftDistance) ==
  IF i < leftDistance THEN [fault |-> FALSE, found |-> FALSE, pos |-> i]
  ELSE IF i < 0 \/ i >= Len(Content) THEN [fault |-> TRUE, found |-> FALSE, pos |-> i]
  ELSE IF IsSpace(Content[i + 1]) THEN [fault |-> FALSE, found |-> TRUE, pos |-> i]
  ELSE lookLeft(Content, i - 1, leftDistance)

\* the "look right" loop: for i := pos; i < rightDistance; i++
RECURSIVE lookRight(_, _, _)
lookRight(Content, i, rightDistance) ==
  IF i >= rightDistance THEN [fault |-> FALSE, found |-> FALSE, pos |-> i]
  ELSE IF i < 0 \/ i >= Len(Content) THEN [fault |-> TRUE, found |-> FALSE, pos |-> i]
  ELSE IF IsSpace(Content[i + 1]) THEN [fault |-> FALSE, found |-> TRUE, pos |-> i]
  ELSE lookRight(Content, i + 1, rightDistance)

\* fault: the index expression res.Content[i] was out of range (a Go panic)
findNearbySpace(Content, pos, distance) ==
  LET leftDistance == IF pos - distance < 0 THEN 0 ELSE pos - distance
      rightDistance == IF pos + distance >= Len(Content) THEN Len(Content)
                       ELSE pos + distance
      l == lookLeft(Content, pos, leftDistance)
      r == lookRight(Content, pos, rightDistance)
  IN  IF l.fault \/ l.found THEN l
      ELSE IF r.fault \/ r.found THEN r
      ELSE [fault |-> FALSE, found |-> FALSE, pos |-> pos]

\* -------------------------------------------------------- extractRelevantV3
\* the (term, start, end) triples of a match map; Idx is the range's place in
\* its term's list, which keeps two equal ranges apart
Flatten(MatchLocations) ==
  UNION {{[Word |-> k, Idx |-> n,
           Start |-> MatchLocations[k][n][1], End |-> MatchLocations[k][n][2]]
          : n \in DOMAIN MatchLocations[k]} : k \in DOMAIN MatchLocations}

\* sort.Slice(rv3, Start ascending) over a map iterated in any order: sort.Slice
\* is not stable, so every ordering with no later Start before an earlier one
sortByStart(S) ==
  {p \in Orderings(S) :
     \A i, j \in DOMAIN p : i < j => ~(p[j].Start < p[i].Start)}

\* "Slide left" from anchor i, j descending; m holds StartPos and Relevant
RECURSIVE slideLeft(_, _, _, _, _)
slideLeft(rv3, i, j, wrapLength, m) ==
  IF j < 1 THEN m
  ELSE IF rv3[i].End - rv3[j].Start > wrapLength THEN m
  ELSE slideLeft(rv3, i, j - 1, wrapLength,
                 [m EXCEPT !.StartPos = rv3[j].Start,
                           !.Relevant = Append(@, rv3[j])])

\* "Slide right" from anchor i, j ascending; m holds EndPos and Relevant
RECURSIVE slideRight(_, _, _, _, _)
slideRight(rv3, i, j, wrapLength, m) ==
  IF j > Len(rv3) THEN m
  ELSE IF rv3[j].End - rv3[i].Start > wrapLength THEN m
  ELSE slideRight(rv3, i, j + 1, wrapLength,
                  [m EXCEPT !.EndPos = rv3[j].End,
                            !.Relevant = Append(@, rv3[j])])

\* "expand it out": pad by half the shortfall, clamped to the content
expand(m, Content, relLength) ==
  LET l == m.EndPos - m.StartPos
      add == (relLength - l) \div 2
      s == m.StartPos - add
      e == m.EndPos + add
  IN  IF l < relLength
      THEN [m EXCEPT !.StartPos = IF s < 0 THEN 0 ELSE s,
                     !.EndPos = IF e > Len(Content) THEN Len(Content) ELSE e]
      ELSE m

\* a float64 score as the fraction num / den; den = 0 is Go's +Inf
\* m.Score += len(m.Relevant); m.Score += m.EndPos - m.EndPos;
\* m.Score = m.Score / float64(documentFrequencies[word])
scoreOf(m, documentFrequencies, word) ==
  [num |-> Len(m.Relevant) + (m.EndPos - m.EndPos),
   den |-> MapGet(documentFrequencies, word)]

\* float64 a > b for two such fractions with num > 0
ScoreGreater(a, b) == a.num * b.den > b.num * a.den

\* one iteration of the anchor loop: the bracket of anchor i with its score,
\* and whether one of the two findNearbySpace calls faulted
bestMatchOf(rv3, i, Content, documentFrequencies, relLength) ==
  LET wrapLength == relLength \div 2
      m0 == [StartPos |-> rv3[i].Start, EndPos |-> rv3[i].End,
             Relevant |-> <<rv3[i]>>]
      m1 == slideLeft(rv3, i, i - 1, wrapLength, m0)
      m2 == slideRight(rv3, i, i + 1, wrapLength, m1)
      m3 == expand(m2, Content, relLength)
      sp == findNearbySpace(Content, m3.StartPos, 10)
      ep == findNearbySpace(Content, m3.EndPos, 10)
  IN  [StartPos |-> m3.StartPos, EndPos |-> m3.EndPos, Relevant |-> m3.Relevant,
       Score |-> scoreOf(m3, documentFrequencies, rv3[i].Word),
       Anchor |-> i, fault |-> sp.fault \/ ep.fault]

bestMatchesOf(rv3, Content, documentFrequencies, relLength) ==
  [i \in 1..Len(rv3) |->
     bestMatchOf(rv3, i, Content, documentFrequencies, relLength)]

\* sort.Slice(bestMatches, Score descending). sort.Slice is documented as not
\* stable, so this is every ordering with no greater score after a smaller one
\* (Go's implementation keeps equal elements in order only in slices of at
\* most 12 elements)
sortByScore(bestMatches) ==
  {[i \in DOMAIN p |-> bestMatches[p[i]]] :
     p \in {q \in Orderings(DOMAIN bestMatches) :
              \A i, j \in DOMAIN q :
                 i < j => ~ScoreGreater(bestMatches[q[j]].Score,
                                        bestMatches[q[i]].Score)}}

snippetOf(m, Content, indicator) ==
  [Content |-> indicator \o SubSeq(Content, m.StartPos + 1, m.EndPos) \o indicator,
   StartPos |-> m.StartPos, EndPos |-> m.EndPos]

\* every run extractRelevantV3 can make on a document: rv3 after its sort,
\* bestMatches before and after theirs, and the outcome. fault is a panic:
\* findNearbySpace indexing past the content, or bestMatches[0] on an empty
\* slice. snippet is the Snippet returned.
extractRelevantV3(Content, MatchLocations, documentFrequencies, relLength, indicator) ==
  UNION {
    LET bm == bestMatchesOf(rv3, Content, documentFrequencies, relLength)
    IN  {[rv3 |-> rv3, bestMatches |-> bm, sorted |-> srt,
          fault |-> (\E i \in DOMAIN bm : bm[i].fault) \/ Len(srt) = 0,
          snippet |-> IF Len(srt) = 0 THEN [Content |-> <<>>, StartPos |-> -1, EndPos |-> -1]
                      ELSE snippetOf(srt[1], Content, indicator)]
         : srt \in sortByScore(bm)}
    : rv3 \in sortByStart(Flatten(MatchLocations))}

\* ------------------------------------------------------------------ state
\* the summarizer and its producers
VARIABLES
  input,             \* f.input: the documents in the channel, oldest first
  closed,            \* whether the producer side has closed f.input
  toSend,            \* per producer, the documents it has still to send
  sent,              \* every document sent on f.input so far, in send order
  results,           \* Start's results slice
  heap,              \* the *fileJob objects: Score and MatchLocations of each
  pc,                \* where Start is: collect, format, done, panic
  ResultLimit,       \* f.ResultLimit
  SnippetCount,      \* f.SnippetCount
  Format,            \* f.Format
  collected,         \* results as the receive loop left it
  rankInput,         \* the slice Start passed to rankResults
  documentFrequency, \* the map formatJson / formatDefault built
  rendered           \* what the formatter has emitted so far, per document

\* extractRelevantV3 applied on its own
VARIABLES v3in, v3run

svars == <<input, closed, toSend, sent, results, heap, pc, ResultLimit,
           SnippetCount, Format, collected, rankInput, documentFrequency, rendered>>

v3vars == <<v3in, v3run>>

vars == <<svars, v3vars>>

Null == [none |-> TRUE]

\* the query terms, with the bytes each one matches
Terms == {"a", "b", "ab"}

TermBytes(t) ==
  CASE t = "a" -> <<97>>
    [] t = "b" -> <<98>>
    [] t = "ab" -> <<97, 98>>

\* the ranges [start, end] at which the matcher finds term t in a content
Occurrences(Content, t) ==
  {<<s, s + Len(TermBytes(t))>> : s \in
     {x \in 0..Len(Content) :
        /\ x + Len(TermBytes(t)) <= Len(Content)
        /\ SubSeq(Content, x + 1, x + Len(TermBytes(t))) = TermBytes(t)}}

\* a set of ranges as the list the matcher reports: ascending
RECURSIVE AscendingList(_)
AscendingList(R) ==
  IF R = {} THEN <<>>
  ELSE LET first == CHOOSE r \in R : \A q \in R : r[1] <= q[1]
       IN  <<first>> \o AscendingList(R \ {first})

\* the match maps a matcher can hand over for a content: each term absent, or
\* present with some of its occurrences
MatchMaps(Content) ==
  UNION {[T -> UNION {{AscendingList(R) : R \in SUBSET Occurrences(Content, t)}
                      : t \in Terms}]
         : T \in SUBSET Terms}

WellFormed(Content, ml) ==
  \A t \in DOMAIN ml : Range(ml[t]) \subseteq Occurrences(Content, t)
                        /\ ml[t] = AscendingList(Range(ml[t]))

\* ---------------------------------------------- extractRelevantV3 on its own
\* contents of the function-level specification: one no longer than the target
\* length, ending in a match, one longer, and one whose first whitespace is
\* ten bytes from its start
V3Contents ==
  { <<97, 98, 32, 120, 32, 98>>,
    <<120, 32, 97, 98, 32, 120, 120, 32, 97, 32, 120, 98, 32, 120, 120, 120>>,
    <<97, 120, 120, 120, 120, 120, 120, 120, 120, 120, 32, 120, 120>> }

V3Inputs ==
  UNION {{[Content |-> c, MatchLocations |-> ml, documentFrequencies |-> df] :
            ml \in {m \in MatchMaps(c) : WellFormed(c, m)},
            df \in UNION {[T -> 0..MaxFreq] : T \in SUBSET Terms}}
         : c \in V3Contents}

InitV3 ==
  /\ v3in \in V3Inputs
  /\ v3run = Null
  /\ input = <<>> /\ closed = TRUE /\ toSend = <<>> /\ sent = <<>>
  /\ results = <<>> /\ heap = <<>> /\ pc = "done"
  /\ ResultLimit = -1 /\ SnippetCount = 1 /\ Format = "default"
  /\ collected = <<>> /\ rankInput = <<>> /\ documentFrequency = <<>>
  /\ rendered = <<>>

ApplyV3 ==
  /\ v3run = Null
  /\ \E run \in extractRelevantV3(v3in.Content, v3in.MatchLocations,
                                  v3in.documentFrequencies, SnippetLength, Indicator) :
       v3run' = run
  /\ UNCHANGED <<v3in, svars>>

NextV3 == ApplyV3

SpecV3 == InitV3 /\ [][NextV3]_vars

\* ------------------------------------------------------------- the documents
\* the files the producers can send: path bytes, content, and the match map
\* the matcher recorded ("/b", "/a", "/c", "/a/x")
LongContent ==
  <<120, 32, 97, 98, 32, 120, 120, 32, 97, 32, 120, 98, 32, 120, 120, 120>>

DocPool ==
  << [Location |-> <<47, 98>>, Content |-> LongContent,
      MatchLocations |-> [t \in {"a", "b"} |->
                            IF t = "a" THEN << <<8, 9>> >>
                            ELSE << <<3, 4>>, <<11, 12>> >>]],
     [Location |-> <<47, 97>>, Content |-> <<120, 120, 32, 120>>,
      MatchLocations |-> <<>>],
     [Location |-> <<47, 99>>, Content |-> LongContent,
      MatchLocations |-> [t \in {"b"} |-> << <<3, 4>> >>]],
     [Location |-> <<47, 97, 47, 120>>, Content |-> LongContent,
      MatchLocations |-> [t \in {"b"} |-> << <<11, 12>> >>]] >>

DocIds == DOMAIN DocPool

Producers == {1, 2}

\* ------------------------------------------------------------------ ranking
\* a frequency map that counts the documents holding a term, not its ranges
documentCountFrequency(batch, h) ==
  [k \in UNION {DOMAIN h[batch[i]].MatchLocations : i \in DOMAIN batch} |->
     Cardinality({i \in DOMAIN batch : k \in DOMAIN h[batch[i]].MatchLocations})]

\* freq[k] += len(v) for every term k of every document, in batch order
RECURSIVE calculateDocumentTermFrequency(_, _)
calculateDocumentTermFrequency(batch, h) ==
  IF batch = <<>> THEN <<>>
  ELSE LET rest == calculateDocumentTermFrequency(Take(batch, Len(batch) - 1), h)
           ml == h[batch[Len(batch)]].MatchLocations
       IN  [k \in DOMAIN rest \cup DOMAIN ml |->
              MapGet(rest, k) + (IF k \in DOMAIN ml THEN Len(ml[k]) ELSE 0)]

\* the frequency-weighted score of one document: per term, its occurrences in
\* the document weighted by the file count over the term's batch frequency,
\* normalised by the document's length (scaled to an integer)
tfidfScore(corpusCount, freq, id, h) ==
  LET ml == h[id].MatchLocations
      terms == {k \in DOMAIN ml : Len(ml[k]) > 0}
      w[T \in SUBSET terms] ==
        IF T = {} THEN 0
        ELSE LET k == CHOOSE x \in T : TRUE
             IN  w[T \ {k}] + (Len(ml[k]) * corpusCount * 1000) \div freq[k]
  IN  w[terms] \div Len(DocPool[id].Content)

\* writes every document's Score
rankResultsTFIDF(corpusCount, batch, h) ==
  LET freq == calculateDocumentTermFrequency(batch, h)
  IN  [id \in DOMAIN h |->
         IF id \in Range(batch)
         THEN [h[id] EXCEPT !.Score = tfidfScore(corpusCount, freq, id, h)]
         ELSE h[id]]

\* strings.Compare(a, b) < 0 on the paths' bytes
LocationLess(a, b) ==
  \E k \in 1..(Min(Len(a), Len(b)) + 1) :
     /\ \A n \in 1..(k - 1) : a[n] = b[n]
     /\ \/ k > Len(a) /\ k <= Len(b)
        \/ k <= Len(a) /\ k <= Len(b) /\ a[k] < b[k]

\* a less function that breaks equal scores by the larger path first
resultLessPathDescending(x, y, h) ==
  IF h[x].Score = h[y].Score
  THEN LocationLess(DocPool[y].Location, DocPool[x].Location)
  ELSE h[x].Score > h[y].Score

\* the less function of sortResults: score descending, equal scores by path
resultLess(x, y, h) ==
  IF h[x].Score = h[y].Score
  THEN LocationLess(DocPool[x].Location, DocPool[y].Location)
  ELSE h[x].Score > h[y].Score

\* x put into an already sorted slice, after everything not greater than it
RECURSIVE insertResult(_, _, _)
insertResult(sorted, x, h) ==
  IF sorted = <<>> THEN <<x>>
  ELSE IF resultLess(x, Head(sorted), h) THEN <<x>> \o sorted
  ELSE <<Head(sorted)>> \o insertResult(Tail(sorted), x, h)

\* sort.Slice with resultLess, which orders documents of distinct paths totally
RECURSIVE sortResults(_, _)
sortResults(batch, h) ==
  IF batch = <<>> THEN <<>>
  ELSE insertResult(sortResults(Take(batch, Len(batch) - 1), h), batch[Len(batch)], h)

\* score the batch, then sort it in place
rankResults(corpusCount, batch, h) ==
  LET scored == rankResultsTFIDF(corpusCount, batch, h)
  IN  [results |-> sortResults(batch, scored), heap |-> scored]

\* FileReaderWorker.GetFileCount(): the files read so far
GetFileCount == Len(sent)

\* --------------------------------------------------------------- formatting
\* the highlight loop of formatJson / formatDefault for one snippet: l, and
\* the match map after it, whose slices s the loop writes through
remapInto(MatchLocations, StartPos, EndPos) ==
  LET inside(s) == s[1] >= StartPos /\ s[2] <= EndPos
  IN  [l |-> {[Word |-> t.Word, Idx |-> t.Idx,
               s |-> <<t.Start - StartPos, t.End - StartPos>>]
              : t \in {x \in Flatten(MatchLocations) : inside(<<x.Start, x.End>>)}},
       MatchLocations |->
         [k \in DOMAIN MatchLocations |->
            [n \in DOMAIN MatchLocations[k] |->
               IF inside(MatchLocations[k][n])
               THEN <<MatchLocations[k][n][1] - StartPos,
                      MatchLocations[k][n][2] - StartPos>>
               ELSE MatchLocations[k][n]]]]

\* the snippets of a run, best first, as the summarizer indexes them
snippetsOf(run, Content, indicator) ==
  [i \in DOMAIN run.sorted |-> snippetOf(run.sorted[i], Content, indicator)]

\* the loop over a document's snippets: out collects what is printed
RECURSIVE renderSnippets(_, _, _, _)
renderSnippets(snippets, i, MatchLocations, out) ==
  IF i > Len(snippets) THEN [MatchLocations |-> MatchLocations, out |-> out]
  ELSE LET r == remapInto(MatchLocations, snippets[i].StartPos, snippets[i].EndPos)
       IN  renderSnippets(snippets, i + 1, r.MatchLocations,
             Append(out, [StartPos |-> snippets[i].StartPos,
                          EndPos |-> snippets[i].EndPos,
                          Content |-> snippets[i].Content,
                          MatchLocations |-> r.l,
                          highlighted |-> ~(snippets[i].StartPos = 0
                                            /\ snippets[i].EndPos = 0)]))

\* formatJson takes snippet [0]; formatDefault the first f.SnippetCount
snippetsTaken(snippets) ==
  IF Format = "json" THEN Take(snippets, 1)
  ELSE IF Len(snippets) > SnippetCount THEN Take(snippets, SnippetCount)
  ELSE snippets

\* --------------------------------------------------------------- the actions
InitBatches ==
  {b \in UNION {[1..n -> DocIds] : n \in 0..MaxBatch} :
     \A i, j \in DOMAIN b : i # j => b[i] # b[j]}

Init ==
  /\ \E b \in InitBatches : \E k \in 0..Len(b) :
       toSend = [p \in Producers |->
                   IF p = 1 THEN SubSeq(b, 1, k) ELSE SubSeq(b, k + 1, Len(b))]
  /\ input = <<>>
  /\ closed = FALSE
  /\ sent = <<>>
  /\ results = <<>>
  /\ heap = [id \in DocIds |->
               [Score |-> 0, MatchLocations |-> DocPool[id].MatchLocations]]
  /\ pc = "collect"
  /\ ResultLimit \in -1..MaxLimit
  /\ SnippetCount \in 1..MaxSnippetCount
  /\ Format \in {"json", "default"}
  /\ collected = <<>>
  /\ rankInput = <<>>
  /\ documentFrequency = <<>>
  /\ rendered = <<>>
  /\ v3in = Null
  /\ v3run = Null

\* a producer sends its next document on f.input
Send(p) ==
  /\ ~closed
  /\ toSend[p] # <<>>
  /\ Len(input) < ChanCap
  /\ input' = Append(input, Head(toSend[p]))
  /\ sent' = Append(sent, Head(toSend[p]))
  /\ toSend' = [toSend EXCEPT ![p] = Tail(@)]
  /\ UNCHANGED <<closed, results, heap, pc, ResultLimit, SnippetCount, Format,
                 collected, rankInput, documentFrequency, rendered, v3vars>>

\* the producers are done: f.input is closed
Close ==
  /\ ~closed
  /\ \A p \in Producers : toSend[p] = <<>>
  /\ closed' = TRUE
  /\ UNCHANGED <<input, toSend, sent, results, heap, pc, ResultLimit, SnippetCount,
                 Format, collected, rankInput, documentFrequency, rendered, v3vars>>

\* one iteration of "for res := range f.input"
Receive ==
  /\ pc = "collect"
  /\ input # <<>>
  /\ results' = Append(results, Head(input))
  /\ input' = Tail(input)
  /\ UNCHANGED <<closed, toSend, sent, heap, pc, ResultLimit, SnippetCount, Format,
                 collected, rankInput, documentFrequency, rendered, v3vars>>

\* the range loop ends on the closed, empty channel; then the limit, then
\* rankResults, then the formatter's calculateDocumentTermFrequency
Rank ==
  /\ pc = "collect"
  /\ input = <<>>
  /\ closed
  /\ LET limited == IF ResultLimit # -1 /\ Len(results) > ResultLimit
                    THEN Take(results, ResultLimit)
                    ELSE results
         ranked == rankResults(GetFileCount, limited, heap)
     IN  /\ collected' = results
         /\ rankInput' = limited
         /\ results' = ranked.results
         /\ heap' = ranked.heap
         /\ documentFrequency' = calculateDocumentTermFrequency(ranked.results, ranked.heap)
  /\ pc' = "format"
  /\ UNCHANGED <<input, closed, toSend, sent, ResultLimit, SnippetCount, Format,
                 rendered, v3vars>>

\* one iteration of "for _, res := range results" in formatJson / formatDefault
FormatDoc ==
  /\ pc = "format"
  /\ Len(rendered) < Len(results)
  /\ LET id == results[Len(rendered) + 1]
     IN  \E run \in extractRelevantV3(DocPool[id].Content, heap[id].MatchLocations,
                                      documentFrequency, SnippetLength, Indicator) :
           IF run.fault
           THEN /\ pc' = "panic"
                /\ UNCHANGED <<heap, rendered>>
           ELSE LET r == renderSnippets(
                           snippetsTaken(snippetsOf(run, DocPool[id].Content, Indicator)),
                           1, heap[id].MatchLocations, <<>>)
                IN  /\ heap' = [heap EXCEPT ![id].MatchLocations = r.MatchLocations]
                    /\ rendered' = Append(rendered, [doc |-> id, snippets |-> r.out])
                    /\ pc' = pc
  /\ UNCHANGED <<input, closed, toSend, sent, results, ResultLimit, SnippetCount,
                 Format, collected, rankInput, documentFrequency, v3vars>>

\* the loop is over: the output is written and Start returns
Finish ==
  /\ pc = "format"
  /\ Len(rendered) = Len(results)
  /\ pc' = "done"
  /\ UNCHANGED <<input, closed, toSend, sent, results, heap, ResultLimit,
                 SnippetCount, Format, collected, rankInput, documentFrequency,
                 rendered, v3vars>>

Next ==
  \/ \E p \in Producers : Send(p)
  \/ Close
  \/ Receive
  \/ Rank
  \/ FormatDoc
  \/ Finish

Spec == Init /\ [][Next]_vars

\* ------------------------------------------------------------------- claims
InitHeap ==
  [id \in DocIds |-> [Score |-> 0, MatchLocations |-> DocPool[id].MatchLocations]]

\* Go's results[:L] guarded by "ResultLimit != -1 && len(results) > L"
LimitTo(batch, L) ==
  IF L = -1 THEN batch ELSE Take(batch, Min(L, Len(batch)))

\* C1: the result limit is applied after ranking the complete batch: the
\* documents handed to the formatter are the first min(L, n) entries, in the
\* same order, of the ranking of the whole collected batch (all of them with
\* limit -1).
C1_LimitAfterRanking ==
  pc # "collect" =>
    results = LimitTo(rankResults(Len(collected), collected, InitHeap).results,
                      ResultLimit)

\* C2: ranking does not begin until the channel is closed and drained, and the
\* batch passed to rankResults holds every document ever sent, in receive order.
C2_RankInputIsEverythingSent ==
  pc # "collect" => closed /\ input = <<>> /\ rankInput = sent

\* with C2: what the receive loop collected is every document sent, in order,
\* and the channel is closed and empty by then
CollectedIsEverythingSent ==
  pc # "collect" => closed /\ input = <<>> /\ collected = sent

\* C3: after sortResults the batch is a permutation of its input, scores are
\* non-increasing along it, and two documents of equal score stand with the
\* lexicographically smaller Location first, whatever their input order.
C3_SortedByScoreThenPath ==
  pc # "collect" =>
    /\ Len(results) = Len(rankInput)
    /\ \A id \in DocIds :
         Cardinality({i \in DOMAIN results : results[i] = id})
           = Cardinality({i \in DOMAIN rankInput : rankInput[i] = id})
    /\ \A i, j \in DOMAIN results :
         i < j =>
           /\ heap[results[i]].Score >= heap[results[j]].Score
           /\ heap[results[i]].Score = heap[results[j]].Score
                => LocationLess(DocPool[results[i]].Location,
                                DocPool[results[j]].Location)

\* C3 witness: a ranked batch of three with two documents of equal score that
\* were received in the opposite order, behind a document of greater score
C3_Witness ==
  /\ pc = "done"
  /\ Len(results) = 3
  /\ heap[results[1]].Score > heap[results[2]].Score
  /\ heap[results[2]].Score = heap[results[3]].Score
  /\ \E i, j \in DOMAIN rankInput :
       i < j /\ rankInput[i] = results[3] /\ rankInput[j] = results[2]

\* the ranges recorded for term k over the documents of a batch, each as
\* (place in the batch, place in the term's list)
RangesOf(batch, k) ==
  UNION {{<<i, n>> : n \in (IF k \in DOMAIN DocPool[batch[i]].MatchLocations
                             THEN DOMAIN DocPool[batch[i]].MatchLocations[k]
                             ELSE {})}
         : i \in DOMAIN batch}

\* C4: the document-frequency map holds exactly the terms that are keys of
\* some document's match map, each with the sum over the batch of the number
\* of ranges recorded for it; an empty batch gives an empty map.
C4_DocumentFrequency ==
  pc # "collect" =>
    /\ DOMAIN documentFrequency
         = {k \in Terms : \E i \in DOMAIN results :
                             k \in DOMAIN DocPool[results[i]].MatchLocations}
    /\ \A k \in DOMAIN documentFrequency :
         documentFrequency[k] = Cardinality(RangesOf(results, k))
    /\ results = <<>> => documentFrequency = <<>>

\* C4 witness: a batch of three in which one term has two ranges in one
\* document and one range in each of the two others, and another term has one
C4_Witness ==
  /\ pc = "format"
  /\ Len(results) = 3
  /\ DOMAIN documentFrequency = {"a", "b"}
  /\ documentFrequency["a"] = 1
  /\ documentFrequency["b"] = 4

\* C5: for every snippet rendered, the second and later ones of a document
\* included, the highlight list holds (start - StartPos, end - StartPos) for
\* exactly the document's original ranges with start >= StartPos and
\* end <= EndPos.
C5_HighlightsAreTheRangesInside ==
  \A d \in DOMAIN rendered : \A i \in DOMAIN rendered[d].snippets :
     LET sn == rendered[d].snippets[i]
         orig == Flatten(DocPool[rendered[d].doc].MatchLocations)
     IN  sn.MatchLocations =
           {[Word |-> t.Word, Idx |-> t.Idx,
             s |-> <<t.Start - sn.StartPos, t.End - sn.StartPos>>]
            : t \in {x \in orig : x.Start >= sn.StartPos /\ x.End <= sn.EndPos}}

\* with C5: the first snippet of every document has the claimed highlight list
FirstSnippetHighlights ==
  \A d \in DOMAIN rendered :
     LET sn == rendered[d].snippets[1]
         orig == Flatten(DocPool[rendered[d].doc].MatchLocations)
     IN  sn.MatchLocations =
           {[Word |-> t.Word, Idx |-> t.Idx,
             s |-> <<t.Start - sn.StartPos, t.End - sn.StartPos>>]
            : t \in {x \in orig : x.Start >= sn.StartPos /\ x.End <= sn.EndPos}}

\* C6: formatting leaves a document's match-location map as it was: every
\* range still holds its original absolute offsets.
C6_MatchLocationsUnchanged ==
  \A id \in DocIds : heap[id].MatchLocations = DocPool[id].MatchLocations

\* the frequency index counts at least the document's own ranges of each term,
\* as one built over a batch holding the document does
IndexCovers(in) ==
  \A k \in DOMAIN in.MatchLocations :
     MapGet(in.documentFrequencies, k) >= Len(in.MatchLocations[k])
     /\ MapGet(in.documentFrequencies, k) > 0

\* C7: each bracket's score is (1 + member matches) over the anchor term's
\* frequency count, a missing or zero count taken as 1, hence finite and
\* positive.
C7_BracketScore ==
  (v3run # Null /\ ~v3run.fault) =>
    \A i \in DOMAIN v3run.bestMatches :
       LET m == v3run.bestMatches[i]
           count == MapGet(v3in.documentFrequencies, v3run.rv3[i].Word)
           divisor == IF count = 0 THEN 1 ELSE count
       IN  /\ m.Score.den > 0
           /\ m.Score.num > 0
           /\ m.Score.num * divisor = (1 + (Len(m.Relevant) - 1)) * m.Score.den

\* with C7: under an index that counts the document's own ranges the score is
\* (1 + member matches) / count
BracketScoreUnderCoveringIndex ==
  (v3run # Null /\ ~v3run.fault /\ IndexCovers(v3in)) =>
    \A i \in DOMAIN v3run.bestMatches :
       LET m == v3run.bestMatches[i]
           count == v3in.documentFrequencies[v3run.rv3[i].Word]
       IN  m.Score.den = count /\ m.Score.num = Len(m.Relevant)

\* C8: the bracket returned is that of the highest-scoring anchor, the earliest
\* one in the start-sorted sequence when several share the highest score.
C8_FirstBestAnchorWins ==
  (v3run # Null /\ ~v3run.fault /\ IndexCovers(v3in)) =>
    LET bm == v3run.bestMatches
        top == {i \in DOMAIN bm :
                  \A j \in DOMAIN bm : ~ScoreGreater(bm[j].Score, bm[i].Score)}
        first == CHOOSE i \in top : \A j \in top : i <= j
    IN  /\ v3run.snippet.StartPos = bm[first].StartPos
        /\ v3run.snippet.EndPos = bm[first].EndPos

\* with C8: the bracket returned is that of an anchor no other anchor outscores
BestScoreWins ==
  (v3run # Null /\ ~v3run.fault) =>
    \E i \in DOMAIN v3run.bestMatches :
       /\ \A j \in DOMAIN v3run.bestMatches :
            ~ScoreGreater(v3run.bestMatches[j].Score, v3run.bestMatches[i].Score)
       /\ v3run.snippet.StartPos = v3run.bestMatches[i].StartPos
       /\ v3run.snippet.EndPos = v3run.bestMatches[i].EndPos

\* C9: a document with an empty match map never makes the rendering fault; it
\* is rendered as one snippet with StartPos = EndPos = 0.
C9_EmptyMatchMapIsRendered ==
  \A i \in DOMAIN results :
     (pc # "collect" /\ Flatten(DocPool[results[i]].MatchLocations) = {}) =>
       /\ ~(pc = "panic" /\ Len(rendered) + 1 = i)
       /\ i <= Len(rendered) =>
            /\ Len(rendered[i].snippets) = 1
            /\ rendered[i].snippets[1].StartPos = 0
            /\ rendered[i].snippets[1].EndPos = 0

\* C10: for a content no longer than the target length the snippet is the whole
\* content, StartPos = 0, EndPos = its length, with no indicator around it.
C10_ShortContentReturnedWhole ==
  (v3run # Null /\ ~v3run.fault /\ IndexCovers(v3in)
     /\ Len(v3in.Content) <= SnippetLength) =>
    /\ v3run.snippet.Content = v3in.Content
    /\ v3run.snippet.StartPos = 0
    /\ v3run.snippet.EndPos = Len(v3in.Content)

Abs(x) == IF x < 0 THEN -x ELSE x

\* what C11 asks of one findNearbySpace(res, pos, 10) call
NearbySpaceAsClaimed(Content, pos) ==
  LET r == findNearbySpace(Content, pos, 10)
  IN  /\ ~r.fault
      /\ r.found =>
           /\ r.pos \in 0..(Len(Content) - 1)
           /\ IsSpace(Content[r.pos + 1])
           /\ Abs(r.pos - pos) <= 10
      /\ ~r.found =>
           /\ r.pos = pos
           /\ \A i \in 0..(Len(Content) - 1) :
                Abs(i - pos) <= 10 => ~IsSpace(Content[i + 1])

\* C11: the boundary cleanup never fails: at every boundary position
\* extractRelevantV3 passes, findNearbySpace reads only indexes inside the
\* content and returns a whitespace position at most 10 away with true, or
\* the position itself with false when no whitespace lies within 10.
C11_NearbySpaceNeverFails ==
  (v3run # Null /\ IndexCovers(v3in)) =>
    \A i \in DOMAIN v3run.bestMatches :
       /\ NearbySpaceAsClaimed(v3in.Content, v3run.bestMatches[i].StartPos)
       /\ NearbySpaceAsClaimed(v3in.Content, v3run.bestMatches[i].EndPos)

\* with C11: the positions extractRelevantV3 passes lie in 0..len(content), and
\* findNearbySpace reads past the content exactly when the position is the
\* content's length
NearbySpaceFaultsAtTheEnd ==
  v3run # Null =>
    \A i \in DOMAIN v3run.bestMatches :
       \A pos \in {v3run.bestMatches[i].StartPos, v3run.bestMatches[i].EndPos} :
          /\ pos \in 0..Len(v3in.Content)
          /\ findNearbySpace(v3in.Content, pos, 10).fault <=> pos = Len(v3in.Content)

\* with C11: below the content's end findNearbySpace behaves as claimed, but
\* for its reach to the right, which is 9 bytes
NearbySpaceBelowTheEnd ==
  v3run # Null =>
    \A i \in DOMAIN v3run.bestMatches :
       \A pos \in {v3run.bestMatches[i].StartPos, v3run.bestMatches[i].EndPos} :
          LET r == findNearbySpace(v3in.Content, pos, 10)
          IN  pos < Len(v3in.Content) =>
                /\ r.found =>
                     /\ IsSpace(v3in.Content[r.pos + 1])
                     /\ Abs(r.pos - pos) <= 10
                /\ ~r.found =>
                     /\ r.pos = pos
                     /\ \A k \in 0..(Len(v3in.Content) - 1) :
                          (k - pos <= 9 /\ pos - k <= 10)
                            => ~IsSpace(v3in.Content[k + 1])

\* with C11: the claim for positions below the content's end only. It fails
\* too: a whitespace exactly 10 bytes to the right of the position is within
\* the distance and is not found
NearbySpaceAsClaimedBelowTheEnd ==
  v3run # Null =>
    \A i \in DOMAIN v3run.bestMatches :
       \A pos \in {v3run.bestMatches[i].StartPos, v3run.bestMatches[i].EndPos} :
          pos < Len(v3in.Content) => NearbySpaceAsClaimed(v3in.Content, pos)

\* the runs extractRelevantV3 can make on the input at hand
RunsOnInput ==
  extractRelevantV3(v3in.Content, v3in.MatchLocations, v3in.documentFrequencies,
                    SnippetLength, Indicator)

\* a run whose sort of bestMatches kept equal scores in anchor order, as Go's
\* sort does on a short slice: what is left to vary is the order in which the
\* match map's terms were enumerated
KeepsTies(run) ==
  \A i, j \in DOMAIN run.sorted :
     (i < j /\ ~ScoreGreater(run.sorted[i].Score, run.sorted[j].Score))
       => run.sorted[i].Anchor < run.sorted[j].Anchor

\* two ranges of different terms start at the same offset
SharedStart(MatchLocations) ==
  \E x, y \in Flatten(MatchLocations) : x.Word # y.Word /\ x.Start = y.Start

\* C12: for the same content, match map, frequency index and target length,
\* two runs that enumerate the map's terms in different orders return the
\* same StartPos, EndPos and Content, also when ranges of different terms
\* share a start offset.
C12_SameSnippetInAnyTermOrder ==
  (v3run # Null /\ ~v3run.fault /\ KeepsTies(v3run) /\ IndexCovers(v3in)) =>
    \A other \in RunsOnInput :
       (~other.fault /\ KeepsTies(other)) => other.snippet = v3run.snippet

\* with C12: when no two ranges of different terms share a start offset, the
\* order of enumeration does not show in the snippet
SameSnippetWithoutSharedStart ==
  (v3run # Null /\ ~v3run.fault /\ KeepsTies(v3run)
     /\ ~SharedStart(v3in.MatchLocations)) =>
    \A other \in RunsOnInput :
       (~other.fault /\ KeepsTies(other)) => other.snippet = v3run.snippet
====
